---------------------------- MODULE Spec2Model ----------------------------
(***************************************************************************)
(* A model of app.py: merge_word_documents_from_streams, the loop that     *)
(* folds the uploaded .docx files into one python-docx Document.           *)
(*                                                                         *)
(* A body is a sequence of nodes.  A node records the document it comes    *)
(* from (src: the 1-based position of the file in uploaded_files, 0 for a  *)
(* node the merged document made itself), its place in that document's     *)
(* body (pos), its kind and the id it references (a relationship, style or *)
(* numbering id), NoRef when it references none.                           *)
(***************************************************************************)
EXTENDS Integers, Sequences, FiniteSets, TLC

\* ------------------------------------------------------------------ bounds
MaxFiles == 3

\* ------------------------------------------------------------- data model
NoRef == "none"

\* The ids a body node may reference; TemplateIds are the ones python-docx's
\* default template, which Document() opens, defines itself.
IdSet == {"id1", "id2"}
TemplateIds == {"id1"}

P(ref) == [kind |-> "p", ref |-> ref]
SectPr == [kind |-> "sectPr", ref |-> NoRef]

\* The bodies of the valid documents of the model: a plain paragraph and the
\* section properties; two paragraphs that reference ids, one of them an id
\* the template also has; a body with no body-level sectPr (it is optional).
ValidBodies ==
  { << P(NoRef), SectPr >>,
    << P("id1"), P("id2"), SectPr >>,
    << P("id2") >> }

\* What the bytes of an upload are: a package Document() parses into body,
\* or one it raises on (raises = "parse").  raises = "append" is a package
\* that parses and whose element number `at` raises when it is appended.
Valid(b) == [body |-> b, raises |-> "never", at |-> 0]
Corrupt == [body |-> << >>, raises |-> "parse", at |-> 0]
AppendFault(b, j) == [body |-> b, raises |-> "append", at |-> j]

ParseContents == { Valid(b) : b \in ValidBodies } \cup { Corrupt }
AppendFaultContents ==
  UNION { { AppendFault(b, j) : j \in 1..Len(b) } : b \in ValidBodies }

\* File names are sequences of characters.
FileNames == { << "a", "1" >>, << "a", "2" >>, << "a", "1", "0" >> }

SeqsUpTo(S, n) == UNION { [1..k -> S] : k \in 0..n }

\* ----------------------------------------------------------- natural sort
\* natsorted(uploaded_files_list, key=lambda x: x.name, alg=ns.IGNORECASE):
\* a name is split into runs of digits and runs of other characters; a digit
\* run becomes its integer, another run its casefolded string; a key that
\* would start with a number gets an empty string in front of it, so that
\* strings and numbers alternate; keys compare as Python tuples.
Digits == {"0", "1", "2"}
IsDigit(c) == c \in Digits
DigitVal(c) == CASE c = "0" -> 0 [] c = "1" -> 1 [] c = "2" -> 2

\* The code point of a character of the names of the model.
CodePoint(c) ==
  CASE c = "." -> 46
    [] c = "0" -> 48 [] c = "1" -> 49 [] c = "2" -> 50
    [] c = "A" -> 65 [] c = "B" -> 66
    [] c = "a" -> 97 [] c = "b" -> 98 [] c = "c" -> 99 [] c = "d" -> 100
    [] c = "e" -> 101 [] c = "f" -> 102 [] c = "i" -> 105 [] c = "l" -> 108
    [] c = "o" -> 111 [] c = "x" -> 120

\* str.casefold() on a character of the names of the model.
Casefold(c) == CASE c = "A" -> "a" [] c = "B" -> "b" [] OTHER -> c

\* The code point of the casefolded character.
FoldedCode(c) == CodePoint(Casefold(c))

\* The length of the first run of s (s is not empty).
RunLen(s) ==
  CHOOSE n \in 1..Len(s) :
    /\ \A j \in 1..n : IsDigit(s[j]) = IsDigit(s[1])
    /\ n = Len(s) \/ IsDigit(s[n + 1]) # IsDigit(s[1])

RECURSIVE SplitRuns(_)
SplitRuns(s) ==
  IF s = << >> THEN << >>
  ELSE << SubSeq(s, 1, RunLen(s)) >> \o SplitRuns(SubSeq(s, RunLen(s) + 1, Len(s)))

RECURSIVE IntOf(_)
IntOf(run) ==
  IF run = << >> THEN 0
  ELSE 10 * IntOf(SubSeq(run, 1, Len(run) - 1)) + DigitVal(run[Len(run)])

\* A slip: a digit run is kept as text and compared character by character.
KeyElemText(run) ==
  [str |-> [j \in 1..Len(run) |-> FoldedCode(run[j])], num |-> 0]

\* One element of a key: a string (num = 0) or a number (str empty).
KeyElem(run) ==
  IF IsDigit(run[1]) THEN [str |-> << >>, num |-> IntOf(run)]
  ELSE [str |-> [j \in 1..Len(run) |-> FoldedCode(run[j])], num |-> 0]

NatKey(name) ==
  LET runs == SplitRuns(name)
      lead == IF runs # << >> /\ IsDigit(runs[1][1])
                THEN << [str |-> << >>, num |-> 0] >> ELSE << >>
  IN lead \o [j \in 1..Len(runs) |-> KeyElem(runs[j])]

\* a < b for two sequences of integers, as Python compares strings.
CodesLess(a, b) ==
  \/ Len(a) < Len(b) /\ \A l \in 1..Len(a) : a[l] = b[l]
  \/ \E j \in 1..Len(a) :
       /\ j <= Len(b)
       /\ a[j] < b[j]
       /\ \A l \in 1..(j - 1) : a[l] = b[l]

\* Elements at the same place of two keys are both strings or both numbers.
ElemLess(x, y) == x.num < y.num \/ (x.num = y.num /\ CodesLess(x.str, y.str))

\* k1 < k2 as Python compares tuples.
KeyLess(k1, k2) ==
  \/ Len(k1) < Len(k2) /\ \A l \in 1..Len(k1) : k1[l] = k2[l]
  \/ \E j \in 1..Len(k1) :
       /\ j <= Len(k2)
       /\ ElemLess(k1[j], k2[j])
       /\ \A l \in 1..(j - 1) : k1[l] = k2[l]

\* What natsorted can return: no file's key is less than that of the one
\* before it (sorted() is stable, files of equal key keep their upload order).
IsNatSorted(files) ==
  \A j \in 1..(Len(files) - 1) :
    ~KeyLess(NatKey(files[j + 1].name), NatKey(files[j].name))

\* sorted() puts x behind the files already placed whose key is not greater
\* than its own.
InsertByKey(s, x) ==
  LET k == Cardinality({ j \in 1..Len(s) :
                          ~KeyLess(NatKey(x.name), NatKey(s[j].name)) })
  IN SubSeq(s, 1, k) \o << x >> \o SubSeq(s, k + 1, Len(s))

\* A slip: the files are left in upload order.
Unsorted(files) == files

\* natsorted(files, key=lambda x: x.name, alg=ns.IGNORECASE)
RECURSIVE NatSorted(_)
NatSorted(files) ==
  IF files = << >> THEN << >>
  ELSE InsertByKey(NatSorted(SubSeq(files, 1, Len(files) - 1)), files[Len(files)])

VARIABLES
  uploaded_files,         \* the argument: a sequence of [name, content]
  save_raises,            \* whether merged_document.save raises (line 85)
  pc,                     \* the line the call has reached
  index,                  \* enumerate's index, 1-based
  first_file,
  files_processed_count,
  failed_files,
  body,                   \* merged_document.element.body
  parts,                  \* the definitions the merged package holds
  sub_doc,                \* what is left of sub_doc.element.body to iterate
  save_called,            \* whether merged_document.save was called
  result,                 \* the returned triple
  uploaded_files_list,    \* the value of the file_uploader widget
  sorted_files_for_merge, \* st.session_state.sorted_files_for_merge
  merge_attempted,        \* st.session_state.merge_attempted
  merged_doc_stream,      \* st.session_state.merged_doc_stream
  ss_files_processed_count, \* st.session_state.files_processed_count
  ss_failed_files,        \* st.session_state.failed_files
  download_offered,       \* whether the last script run drew the download button
  prev_call               \* history: the argument and outcome of the last call

\* The page: the widget, the session state and what the last run drew.
ui == << uploaded_files_list, sorted_files_for_merge, merge_attempted,
         merged_doc_stream, ss_files_processed_count, ss_failed_files,
         download_offered, prev_call >>

vars == << uploaded_files, save_raises, pc, index, first_file,
           files_processed_count, failed_files, body, parts, sub_doc,
           save_called, result, ui >>

input == << uploaded_files, save_raises >>

\* ---------------------------------------------------------------- helpers
PageBreak == [src |-> 0, pos |-> 0, kind |-> "br", ref |-> NoRef]
TemplateSectPr == [src |-> 0, pos |-> 1, kind |-> "sectPr", ref |-> NoRef]

\* Document(): the default template, whose body is its sectPr alone and whose
\* parts define the template's ids.
TemplateBody == << TemplateSectPr >>
TemplateParts == { [id |-> r, owner |-> 0] : r \in TemplateIds }

\* Document(file_stream).element.body of the file at position i.
ParsedBody(i) ==
  LET b == uploaded_files[i].content.body
  IN [j \in 1..Len(b) |-> [src |-> i, pos |-> j, kind |-> b[j].kind, ref |-> b[j].ref]]

\* The index of the first sectPr child of b, 0 when it has none.
FirstSectPr(b) ==
  IF \E j \in 1..Len(b) : b[j].kind = "sectPr"
    THEN CHOOSE j \in 1..Len(b) :
           /\ b[j].kind = "sectPr"
           /\ \A l \in 1..(j - 1) : b[l].kind # "sectPr"
    ELSE 0

InsertAt(b, j, n) == SubSeq(b, 1, j - 1) \o << n >> \o SubSeq(b, j, Len(b))

\* merged_document.add_page_break(): python-docx adds the paragraph with
\* CT_Body.add_p, which inserts it before the body's first w:sectPr child
\* (the successor declared for w:p) and appends it when there is none.
AddPageBreak(b) ==
  IF FirstSectPr(b) = 0 THEN Append(b, PageBreak)
                        ELSE InsertAt(b, FirstSectPr(b), PageBreak)

\* A slip: the element is put in front of the children.
AppendElementFront(b, e) == << e >> \o b

\* merged_document.element.body.append(element): lxml moves the element to
\* the end of the children.
AppendElement(b, e) == Append(b, e)

\* The returned stream: None, or the package save wrote.
None == [present |-> FALSE, body |-> << >>, parts |-> {}]
Saved(b, ps) == [present |-> TRUE, body |-> b, parts |-> ps]

\* ------------------------------------------------------------------- Init
InitLocals ==
  /\ pc = "start"
  /\ index = 1
  /\ first_file = TRUE
  /\ files_processed_count = 0
  /\ failed_files = << >>
  /\ body = << >>
  /\ parts = {}
  /\ sub_doc = << >>
  /\ save_called = FALSE
  /\ result = [stream |-> None, count |-> 0, failed |-> << >>]

\* History: no call has returned yet.
NoCall == [called |-> FALSE, files |-> << >>, body |-> << >>, count |-> 0,
           failed |-> << >>, present |-> FALSE, ever_present |-> FALSE]

\* lines 107-116: the session state of a new session, nothing uploaded
InitSession ==
  /\ uploaded_files_list = << >>
  /\ sorted_files_for_merge = << >>
  /\ merge_attempted = FALSE
  /\ merged_doc_stream = None
  /\ ss_files_processed_count = 0
  /\ ss_failed_files = << >>
  /\ download_offered = FALSE
  /\ prev_call = NoCall

Init ==
  /\ uploaded_files \in SeqsUpTo([name : FileNames, content : ParseContents], MaxFiles)
  /\ IsNatSorted(uploaded_files)
  /\ save_raises \in BOOLEAN
  /\ InitLocals
  /\ InitSession

\* ---------------------------------------------------------------- actions
\* lines 27-29
ReturnEmpty ==
  /\ pc = "start"
  /\ uploaded_files = << >>
  /\ result' = [stream |-> None, count |-> 0, failed |-> << >>]
  /\ pc' = "done"
  /\ UNCHANGED << input, ui, save_called, index, first_file, files_processed_count,
                  failed_files, body, parts, sub_doc >>

\* A slip: the failed list of the call before is kept.
BeginKeeps ==
  /\ pc = "start"
  /\ uploaded_files # << >>
  /\ body' = TemplateBody
  /\ parts' = TemplateParts
  /\ files_processed_count' = 0
  /\ first_file' = TRUE
  /\ index' = 1
  /\ pc' = "loop"
  /\ UNCHANGED << input, ui, save_called, sub_doc, result, failed_files >>

\* lines 33-43
Begin ==
  /\ pc = "start"
  /\ uploaded_files # << >>
  /\ body' = TemplateBody
  /\ parts' = TemplateParts
  /\ files_processed_count' = 0
  /\ failed_files' = << >>
  /\ first_file' = TRUE
  /\ index' = 1
  /\ pc' = "loop"
  /\ UNCHANGED << input, ui, save_called, sub_doc, result >>

InSeq(x, s) == \E j \in 1..Len(s) : s[j] = x

\* A slip: the failed list is not consulted.
BreakAlways(first, filename, failed, b) ==
  IF ~first THEN AddPageBreak(b) ELSE b

\* lines 51-58: the body after the page-break decision taken for a file
BreakBefore(first, filename, failed, b) ==
  IF ~first /\ ~InSeq(filename, failed) THEN AddPageBreak(b) ELSE b

\* lines 45-58: the loop takes the next file and decides on the page break
NextFile ==
  /\ pc = "loop"
  /\ index <= Len(uploaded_files)
  /\ body' = BreakBefore(first_file, uploaded_files[index].name, failed_files, body)
  /\ first_file' = FALSE
  /\ pc' = "try"
  /\ UNCHANGED << input, ui, save_called, index, files_processed_count, failed_files,
                  parts, sub_doc, result >>

\* lines 60-63: Document(file_stream) parses the package
Parse ==
  /\ pc = "try"
  /\ uploaded_files[index].content.raises # "parse"
  /\ sub_doc' = ParsedBody(index)
  /\ pc' = "append"
  /\ UNCHANGED << input, ui, save_called, index, first_file, files_processed_count,
                  failed_files, body, parts, result >>

\* lines 60-63, 70: Document(file_stream) raises
ParseRaises ==
  /\ pc = "try"
  /\ uploaded_files[index].content.raises = "parse"
  /\ pc' = "except"
  /\ UNCHANGED << input, ui, save_called, index, first_file, files_processed_count,
                  failed_files, body, parts, sub_doc, result >>

\* Whether appending element e of the file at position i raises.
Faulty(i, e) ==
  /\ uploaded_files[i].content.raises = "append"
  /\ uploaded_files[i].content.at = e.pos

\* lines 64-66: one turn of the for loop over sub_doc.element.body; the
\* element moves from the sub document to the end of the merged body and
\* nothing else of the sub document (its parts, its ids) is touched
AppendNext ==
  /\ pc = "append"
  /\ sub_doc # << >>
  /\ ~Faulty(index, Head(sub_doc))
  /\ body' = AppendElement(body, Head(sub_doc))
  /\ sub_doc' = Tail(sub_doc)
  /\ UNCHANGED << input, ui, save_called, pc, index, first_file, files_processed_count,
                  failed_files, parts, result >>

\* lines 64-66, 70: the append raises; what was appended stays
AppendRaises ==
  /\ pc = "append"
  /\ sub_doc # << >>
  /\ Faulty(index, Head(sub_doc))
  /\ pc' = "except"
  /\ UNCHANGED << input, ui, save_called, index, first_file, files_processed_count,
                  failed_files, body, parts, sub_doc, result >>

\* line 69
Processed ==
  /\ pc = "append"
  /\ sub_doc = << >>
  /\ files_processed_count' = files_processed_count + 1
  /\ pc' = "progress"
  /\ UNCHANGED << input, ui, save_called, index, first_file, failed_files, body, parts,
                  sub_doc, result >>

\* A slip: the handler ends the loop instead of going on with the next file.
ExceptAborts ==
  /\ pc = "except"
  /\ failed_files' = Append(failed_files, uploaded_files[index].name)
  /\ sub_doc' = << >>
  /\ index' = Len(uploaded_files) + 1
  /\ pc' = "loop"
  /\ UNCHANGED << input, ui, save_called, first_file, files_processed_count, body,
                  parts, result >>

\* A slip: the handler does not record the file.
ExceptDrops ==
  /\ pc = "except"
  /\ sub_doc' = << >>
  /\ pc' = "progress"
  /\ UNCHANGED << input, ui, save_called, index, first_file, files_processed_count,
                  failed_files, body, parts, result >>

\* lines 70-73
Except ==
  /\ pc = "except"
  /\ failed_files' = Append(failed_files, uploaded_files[index].name)
  /\ sub_doc' = << >>
  /\ pc' = "progress"
  /\ UNCHANGED << input, ui, save_called, index, first_file, files_processed_count, body,
                  parts, result >>

\* line 75 and back to line 45
Progress ==
  /\ pc = "progress"
  /\ index' = index + 1
  /\ pc' = "loop"
  /\ UNCHANGED << input, ui, save_called, first_file, files_processed_count, failed_files,
                  body, parts, sub_doc, result >>

\* line 77: the loop is over
LoopDone ==
  /\ pc = "loop"
  /\ index > Len(uploaded_files)
  /\ pc' = "check"
  /\ UNCHANGED << input, ui, save_called, index, first_file, files_processed_count,
                  failed_files, body, parts, sub_doc, result >>

\* A slip: the test for an empty result never fires.
NoneProcessedNever(count) == count < 0

\* line 79: whether nothing was processed
NoneProcessed(count) == count = 0

\* lines 79-81
ReturnNone ==
  /\ pc = "check"
  /\ NoneProcessed(files_processed_count)
  /\ result' = [stream |-> None, count |-> 0, failed |-> failed_files]
  /\ pc' = "done"
  /\ UNCHANGED << input, ui, save_called, index, first_file, files_processed_count,
                  failed_files, body, parts, sub_doc >>

\* lines 83-87: the merged document is saved to the stream and returned
Save ==
  /\ pc = "check"
  /\ ~NoneProcessed(files_processed_count)
  /\ ~save_raises
  /\ save_called' = TRUE
  /\ result' = [stream |-> Saved(body, parts),
                count |-> files_processed_count, failed |-> failed_files]
  /\ pc' = "done"
  /\ UNCHANGED << input, ui, index, first_file, files_processed_count,
                  failed_files, body, parts, sub_doc >>

\* A slip: the handler returns the stream save was writing.
SaveRaisesReturns ==
  /\ pc = "check"
  /\ ~NoneProcessed(files_processed_count)
  /\ save_raises
  /\ save_called' = TRUE
  /\ result' = [stream |-> Saved(body, parts), count |-> files_processed_count,
                failed |-> failed_files]
  /\ pc' = "done"
  /\ UNCHANGED << input, ui, index, first_file, files_processed_count,
                  failed_files, body, parts, sub_doc >>

\* lines 83-85, 88-91: save raises
SaveRaises ==
  /\ pc = "check"
  /\ ~NoneProcessed(files_processed_count)
  /\ save_raises
  /\ save_called' = TRUE
  /\ result' = [stream |-> None, count |-> files_processed_count,
                failed |-> failed_files]
  /\ pc' = "done"
  /\ UNCHANGED << input, ui, index, first_file, files_processed_count,
                  failed_files, body, parts, sub_doc >>

Next ==
  \/ ReturnEmpty
  \/ Begin
  \/ NextFile
  \/ Parse
  \/ ParseRaises
  \/ AppendNext
  \/ Processed
  \/ Except
  \/ Progress
  \/ LoopDone
  \/ ReturnNone
  \/ Save
  \/ SaveRaises

\* The call when an exception is raised at parse time only.
Spec == Init /\ [][Next]_vars

\* The call when an append may raise too (the try of line 60 covers the loop
\* of lines 64-68).
InitAppendErr ==
  /\ uploaded_files \in SeqsUpTo([name : FileNames,
                                  content : ParseContents \cup AppendFaultContents],
                                 MaxFiles)
  /\ IsNatSorted(uploaded_files)
  /\ save_raises \in BOOLEAN
  /\ InitLocals
  /\ InitSession

NextAppendErr == Next \/ AppendRaises

SpecAppendErr == InitAppendErr /\ [][NextAppendErr]_vars

\* The call runs to its return: nothing in it waits.
FairSpec == Spec /\ WF_vars(Next)

\* ------------------------------------------------------------- the page
\* A slip: the button is drawn after any attempt.
DownloadShownAlways(attempted, stream) == attempted

\* line 172: whether the download button is drawn
DownloadShown(attempted, stream) == attempted /\ stream.present

\* A slip: a run of the script drops the stored result when the upload changed.
ScriptRunClears(list) ==
  /\ pc = "idle"
  /\ uploaded_files_list' = list
  /\ sorted_files_for_merge' =
       IF list # << >> THEN NatSorted(list) ELSE sorted_files_for_merge
  /\ merged_doc_stream' =
       IF list # uploaded_files_list THEN None ELSE merged_doc_stream
  /\ download_offered' = DownloadShown(merge_attempted, merged_doc_stream')
  /\ UNCHANGED << input, pc, index, first_file, files_processed_count,
                  failed_files, body, parts, sub_doc, save_called, result,
                  merge_attempted, ss_files_processed_count,
                  ss_failed_files, prev_call >>

\* lines 98-139 and 172-182: a run of the script in which the merge button is
\* not pressed; list is what the file_uploader returns.  The sorted list is
\* stored only when something is uploaded.
ScriptRun(list) ==
  /\ pc = "idle"
  /\ uploaded_files_list' = list
  /\ sorted_files_for_merge' =
       IF list # << >> THEN NatSorted(list) ELSE sorted_files_for_merge
  /\ download_offered' = DownloadShown(merge_attempted, merged_doc_stream)
  /\ UNCHANGED << input, pc, index, first_file, files_processed_count,
                  failed_files, body, parts, sub_doc, save_called, result,
                  merge_attempted, merged_doc_stream, ss_files_processed_count,
                  ss_failed_files, prev_call >>

\* No call is running.
InitIdle ==
  /\ pc = "idle"
  /\ uploaded_files = << >>
  /\ save_raises = FALSE
  /\ index = 1
  /\ first_file = TRUE
  /\ files_processed_count = 0
  /\ failed_files = << >>
  /\ body = << >>
  /\ parts = {}
  /\ sub_doc = << >>
  /\ save_called = FALSE
  /\ result = [stream |-> None, count |-> 0, failed |-> << >>]

\* The files a user has at hand, and the ways to upload some of them.
MaxUpload == 2

UIFiles ==
  { [name |-> << "a", "2" >>, content |-> Valid(<< P("id1"), P("id2"), SectPr >>)],
    [name |-> << "a", "1", "0" >>, content |-> Corrupt],
    [name |-> << "a", "1" >>, content |-> Valid(<< P("id2") >>)] }

UploadLists ==
  { l \in SeqsUpTo(UIFiles, MaxUpload) :
      \A j, k \in 1..Len(l) : j # k => l[j] # l[k] }

\* The user changes the uploaded files (or touches the page otherwise) and
\* the script runs.
ChangeUpload == \E list \in UploadLists : ScriptRun(list)

\* lines 98-156: the run of the script in which the merge button is pressed,
\* up to the call of merge_word_documents_from_streams.  The button is drawn
\* only when something is uploaded (line 119).
PressMerge ==
  /\ pc = "idle"
  /\ uploaded_files_list # << >>
  /\ sorted_files_for_merge' = NatSorted(uploaded_files_list)
  /\ merge_attempted' = TRUE
  /\ merged_doc_stream' = None
  /\ ss_files_processed_count' = 0
  /\ ss_failed_files' = << >>
  /\ IF sorted_files_for_merge' = << >>
       THEN /\ pc' = "idle"
            /\ download_offered' = FALSE
            /\ UNCHANGED << input, save_called >>
       ELSE /\ uploaded_files' = sorted_files_for_merge'
            /\ save_raises' \in BOOLEAN
            /\ save_called' = FALSE
            /\ pc' = "start"
            /\ UNCHANGED download_offered
  /\ UNCHANGED << uploaded_files_list, index, first_file, files_processed_count,
                  failed_files, body, parts, sub_doc, result, prev_call >>

\* lines 156-182: the call has returned; the result is stored and the rest
\* of the page is drawn
StoreResult ==
  /\ pc = "done"
  /\ merged_doc_stream' = result.stream
  /\ ss_files_processed_count' = result.count
  /\ ss_failed_files' = result.failed
  /\ download_offered' = DownloadShown(merge_attempted, result.stream)
  /\ prev_call' = [called |-> TRUE, files |-> uploaded_files, body |-> body,
                   count |-> result.count, failed |-> result.failed,
                   present |-> result.stream.present,
                   ever_present |-> prev_call.ever_present \/ result.stream.present]
  /\ pc' = "idle"
  /\ UNCHANGED << input, index, first_file, files_processed_count,
                  failed_files, body, parts, sub_doc, save_called, result,
                  uploaded_files_list, sorted_files_for_merge, merge_attempted >>

InitUI == InitIdle /\ InitSession

\* The call is never made with an empty list here, so lines 27-29 do not run.
NextUI ==
  \/ ChangeUpload
  \/ PressMerge
  \/ Begin
  \/ NextFile
  \/ Parse
  \/ ParseRaises
  \/ AppendNext
  \/ Processed
  \/ Except
  \/ Progress
  \/ LoopDone
  \/ ReturnNone
  \/ Save
  \/ SaveRaises
  \/ StoreResult

SpecUI == InitUI /\ [][NextUI]_vars

\* The sort alone: files of these names are uploaded in any order and the
\* script runs.
MaxSortLen == 3

SortNames ==
  { << "a", "1" >>, << "a", "2" >>, << "a", "1", "0" >>, << "A", "1" >>,
    << "f", "i", "l", "e", "2" >>, << "f", "i", "l", "e", "1", "0" >>,
    << "B", ".", "d", "o", "c", "x" >>, << "a", ".", "d", "o", "c", "x" >> }

InitSort ==
  /\ InitIdle
  /\ uploaded_files_list \in
       SeqsUpTo([name : SortNames, content : { Valid(<< P(NoRef), SectPr >>) }],
                MaxSortLen)
  /\ sorted_files_for_merge = << >>
  /\ merge_attempted = FALSE
  /\ merged_doc_stream = None
  /\ ss_files_processed_count = 0
  /\ ss_failed_files = << >>
  /\ download_offered = FALSE
  /\ prev_call = NoCall

\* The script runs on what is uploaded.
Redraw == ScriptRun(uploaded_files_list)

SpecSort == InitSort /\ [][Redraw]_vars

\* ------------------------------------------------- vocabulary of the claims
NFiles == Len(uploaded_files)

\* The file at position i raises while it is processed.
Fails(i) == uploaded_files[i].content.raises # "never"

\* The number of files whose loop iteration has run its try statement.
Handled ==
  CASE pc = "start" -> 0
    [] pc = "progress" -> index
    [] OTHER -> index - 1

Survivors(n) == { i \in 1..n : ~Fails(i) }

RECURSIVE FailedNames(_)
FailedNames(n) ==
  IF n = 0 THEN << >>
  ELSE IF Fails(n) THEN Append(FailedNames(n - 1), uploaded_files[n].name)
       ELSE FailedNames(n - 1)

RECURSIVE ConcatSurvivors(_)
ConcatSurvivors(n) ==
  IF n = 0 THEN << >>
  ELSE IF Fails(n) THEN ConcatSurvivors(n - 1)
       ELSE ConcatSurvivors(n - 1) \o ParsedBody(n)

IsSourceNode(n) == n.src >= 1
SourceNodes(b) == SelectSeq(b, IsSourceNode)

Positions(b, kind) == { j \in 1..Len(b) : b[j].kind = kind }
BreakCount(b) == Cardinality(Positions(b, "br"))

Returned == pc = "done"

\* ------------------------------------------------------------------ claims

\* C1: for every pattern of parse failures that leaves k >= 1 surviving items
\* the merged body holds exactly k-1 page breaks (no break for the gap of a
\* failed item, none for the first surviving item).
C1_BreaksAreSurvivorsMinusOne ==
  (Returned /\ Survivors(NFiles) # {})
    => BreakCount(body) = Cardinality(Survivors(NFiles)) - 1

\* C2: when all N >= 1 items parse, the body holds exactly N-1 page breaks,
\* none before the first item's nodes and one immediately before the first
\* node of each later item.
C2_BreakBeforeEachLaterItem ==
  (Returned /\ NFiles >= 1 /\ Survivors(NFiles) = 1..NFiles)
    => /\ BreakCount(body) = NFiles - 1
       /\ \A j \in 1..Len(body) :
            /\ (body[j].src = 1 /\ body[j].pos = 1)
                 => \A l \in 1..(j - 1) : body[l].kind # "br"
            /\ (body[j].src > 1 /\ body[j].pos = 1)
                 => /\ body[j - 1].kind = "br"
                    /\ j > 2 => body[j - 2].kind # "br"

\* C3: when no item is composed (all fail, or the input is empty) the call
\* returns no stream and a count of 0 and has not called save.
C3_NothingComposedNothingSaved ==
  (Returned /\ Survivors(NFiles) = {})
    => /\ result.stream = None
       /\ result.count = 0
       /\ ~save_called

C3_Witness ==
  /\ Returned
  /\ NFiles >= 2
  /\ Survivors(NFiles) = {}
  /\ Len(result.failed) = NFiles

\* The state of the item at position i, read off the call's position and
\* the merged body.
InBody(i) == { j \in 1..Len(body) : body[j].src = i }

ItemState(i) ==
  CASE pc = "start" \/ i > index \/ (i = index /\ pc = "loop") -> "Pending"
    [] i = index /\ pc = "try" -> "Parsing"
    [] i = index /\ pc = "append" -> "Parsed"
    [] i = index /\ pc = "except" -> "ParseFailed"
    [] OTHER ->
         IF InBody(i) # {} /\ Cardinality(InBody(i)) = Len(uploaded_files[i].content.body)
           THEN "Composed"
         ELSE IF InBody(i) = {} /\ InSeq(uploaded_files[i].name, failed_files)
           THEN "Skipped"
         ELSE "Torn"

ItemSteps ==
  { << "Pending", "Parsing" >>, << "Parsing", "Parsed" >>,
    << "Parsing", "ParseFailed" >>, << "Parsed", "Composed" >>,
    << "ParseFailed", "Skipped" >> }

ItemStepOK ==
  \A i \in 1..NFiles :
    \/ ItemState(i)' = ItemState(i)
    \/ << ItemState(i), ItemState(i)' >> \in ItemSteps

AllTerminal == \A i \in 1..NFiles : ItemState(i) \in { "Composed", "Skipped" }

C5_CountsAddUp ==
  /\ failed_files = FailedNames(Handled)
  /\ files_processed_count = Cardinality(Survivors(Handled))
  /\ files_processed_count + Len(failed_files) = Handled
  /\ Returned =>
       /\ result.failed = FailedNames(NFiles)
       /\ result.count = Cardinality(Survivors(NFiles))
       /\ result.count + Len(result.failed) = NFiles

C5_Witness ==
  /\ Returned
  /\ NFiles = 3
  /\ Fails(2)
  /\ result.count = 2
  /\ result.failed = << uploaded_files[2].name >>

\* C6: an item recorded as failed has none of its nodes in the merged body,
\* also when it raised after some of its nodes were appended.
C6_FailedItemLeavesNothing ==
  \A i \in 1..NFiles :
    (i <= Handled /\ Fails(i)) => InBody(i) = {}

\* The nodes of the file being appended that have left the sub document.
Moved ==
  IF pc = "append"
    THEN SubSeq(ParsedBody(index), 1, Len(ParsedBody(index)) - Len(sub_doc))
    ELSE << >>

LastSurvivor == CHOOSE i \in Survivors(NFiles) : \A l \in Survivors(NFiles) : l <= i

\* C8: the body merged from k >= 1 surviving documents holds exactly one
\* section-terminator node, the one of the last surviving document.
C8_OneTerminator ==
  (Returned /\ Survivors(NFiles) # {})
    => /\ Cardinality(Positions(body, "sectPr")) = 1
       /\ \A j \in Positions(body, "sectPr") : body[j].src = LastSurvivor

\* C9: after a merge of valid documents every id a body node references
\* resolves to a definition of the merged package, and that definition is
\* the one carried over from the node's own source document.
C9_ReferencesResolve ==
  (Returned /\ NFiles >= 1 /\ Survivors(NFiles) = 1..NFiles)
    => \A j \in 1..Len(body) :
         body[j].ref # NoRef
           => /\ \E d \in parts : d.id = body[j].ref
              /\ [id |-> body[j].ref, owner |-> body[j].src] \in parts

\* C10: when two source documents use the same id the later one's is
\* rewritten on merge: in the merged body no two nodes of different source
\* documents reference the same id.
C10_IdsAreUnique ==
  Returned
    => \A j, l \in 1..Len(body) :
         (IsSourceNode(body[j]) /\ IsSourceNode(body[l])
            /\ body[j].src # body[l].src /\ body[j].ref # NoRef)
           => body[j].ref # body[l].ref

\* C11: a stream is returned exactly when at least one item was composed
\* and save did not raise; a returned stream holds every node of every
\* surviving item.
C11_AllOrNothing ==
  Returned =>
    /\ result.stream.present <=> (Survivors(NFiles) # {} /\ ~save_raises)
    /\ result.stream.present =>
         \A i \in Survivors(NFiles) : \A j \in 1..Len(ParsedBody(i)) :
           \E l \in 1..Len(result.stream.body) :
             result.stream.body[l] = ParsedBody(i)[j]

C11_Witness ==
  /\ Returned
  /\ save_raises
  /\ save_called
  /\ Cardinality(Survivors(NFiles)) = 2
  /\ result.count = 2
  /\ ~result.stream.present

NamesOf(files) == [j \in 1..Len(files) |-> files[j].name]
NameSet(files) == { files[j].name : j \in 1..Len(files) }
Occurrences(files, x) == Cardinality({ j \in 1..Len(files) : files[j] = x })

\* The script has sorted what is uploaded.
SortedShown == uploaded_files_list # << >> /\ sorted_files_for_merge # << >>

\* C12: the sorted list holds the uploaded files, no file's key (non-digit
\* runs casefolded, digit runs as integers) is less than that of the one
\* before it, file2 precedes file10, {a2, a10, a1} gives [a1, a2, a10],
\* {B.docx, a.docx} gives [a.docx, B.docx], and sorting the sorted list
\* returns it unchanged.
C12_NaturalOrder ==
  SortedShown =>
    LET S == sorted_files_for_merge
        U == uploaded_files_list
    IN /\ Len(S) = Len(U)
       /\ \A j \in 1..Len(U) : Occurrences(S, U[j]) = Occurrences(U, U[j])
       /\ IsNatSorted(S)
       /\ \A j, l \in 1..Len(S) :
            (S[j].name = << "f", "i", "l", "e", "2" >>
               /\ S[l].name = << "f", "i", "l", "e", "1", "0" >>) => j < l
       /\ (Len(U) = 3 /\ NameSet(U) = { << "a", "2" >>, << "a", "1", "0" >>, << "a", "1" >> })
            => NamesOf(S) = << << "a", "1" >>, << "a", "2" >>, << "a", "1", "0" >> >>
       /\ (Len(U) = 2 /\ NameSet(U) = { << "B", ".", "d", "o", "c", "x" >>,
                                        << "a", ".", "d", "o", "c", "x" >> })
            => NamesOf(S) = << << "a", ".", "d", "o", "c", "x" >>,
                               << "B", ".", "d", "o", "c", "x" >> >>
       /\ NatSorted(S) = S

C12_Witness ==
  /\ NamesOf(uploaded_files_list) = << << "a", "2" >>, << "a", "1", "0" >>, << "a", "1" >> >>
  /\ NamesOf(sorted_files_for_merge) = << << "a", "1" >>, << "a", "2" >>, << "a", "1", "0" >> >>

\* a < b for two names compared byte by byte.
BytesLess(a, b) ==
  CodesLess([j \in 1..Len(a) |-> CodePoint(a[j])], [j \in 1..Len(b) |-> CodePoint(b[j])])

\* C13: two distinct names whose runs all compare equal are ordered byte by
\* byte, so that the sorted list does not depend on the upload order.
C13_TiesByteWise ==
  SortedShown =>
    \A j \in 1..(Len(sorted_files_for_merge) - 1) :
      LET x == sorted_files_for_merge[j].name
          y == sorted_files_for_merge[j + 1].name
      IN NatKey(x) = NatKey(y) => ~BytesLess(y, x)

\* The items up to n that get a page break: every item but the first that
\* has no failed item of the same name before it.
BreaksDue(n) ==
  { i \in 2..n :
      ~\E l \in 1..(i - 1) :
         Fails(l) /\ uploaded_files[l].name = uploaded_files[i].name }

\* C16: the first item clears first_file whether or not it parses; a later
\* item gets its page break before its parse is attempted, whether or not it
\* parses, unless an earlier item of the same name has failed.
C16_BreakPerAttemptedItem ==
  /\ pc = "loop" =>
       /\ first_file <=> index = 1
       /\ BreakCount(body) = Cardinality(BreaksDue(index - 1))
  /\ pc \in { "try", "append", "except", "progress" } =>
       /\ ~first_file
       /\ BreakCount(body) = Cardinality(BreaksDue(index))
  /\ (pc \in { "check", "done" } /\ NFiles > 0) =>
       BreakCount(body) = Cardinality(BreaksDue(NFiles))

C16_Witness ==
  /\ Returned
  /\ NFiles = 3
  /\ Fails(1) /\ Fails(2)
  /\ uploaded_files[1].name # uploaded_files[2].name
  /\ uploaded_files[2].name = uploaded_files[3].name
  /\ BreakCount(body) = 1

\* The ids that are relationships to a media part; the part has the same
\* bytes in every document of the model that has it.
MediaIds == { "id2" }

UsesMedia(i) == \E j \in 1..Len(ParsedBody(i)) : ParsedBody(i)[j].ref \in MediaIds

MediaCopies(ps) == Cardinality({ d \in ps : d.id \in MediaIds })

\* C14: two source documents that share a byte-identical media resource
\* give one copy of it in the merged output with deduplication and two
\* without, so at least one and at most two.
C14_SharedMediaIsCarried ==
  (Returned /\ result.stream.present
     /\ Cardinality({ i \in Survivors(NFiles) : UsesMedia(i) }) = 2)
    => MediaCopies(result.stream.parts) \in { 1, 2 }

\* C15: a call on the ordered input of the call before it ends with the
\* same merged body, the same count and the same failed list.
C15_SameInputSameResult ==
  (pc = "done" /\ prev_call.called /\ prev_call.files = uploaded_files)
    => /\ body = prev_call.body
       /\ result.count = prev_call.count
       /\ result.failed = prev_call.failed

C15_Witness ==
  /\ pc = "done"
  /\ prev_call.called
  /\ prev_call.files = uploaded_files
  /\ NFiles = 2
  /\ result.count = 1
  /\ Len(result.failed) = 1
  /\ BreakCount(body) = 1

StoredResult == << merged_doc_stream, ss_files_processed_count, ss_failed_files >>

\* C17: when a run of the script has ended the download button is drawn
\* exactly when a merge was attempted and a stream is stored; while the merge
\* runs the stored result is the reset one; after a merge that returned no
\* stream the button is not drawn, whatever was merged before.
C17_DownloadOnlyOfLastMerge ==
  /\ pc = "idle" =>
       (download_offered <=> (merge_attempted /\ merged_doc_stream.present))
  /\ pc # "idle" =>
       /\ merge_attempted
       /\ StoredResult = << None, 0, << >> >>
  /\ (pc = "idle" /\ prev_call.called /\ ~prev_call.present) =>
       /\ ~download_offered
       /\ ~merged_doc_stream.present

C17_Witness ==
  /\ pc = "idle"
  /\ prev_call.called
  /\ prev_call.ever_present
  /\ ~prev_call.present
  /\ merge_attempted
  /\ ~download_offered

\* A step of the run in which the merge button was pressed.
MergeRunStep ==
  \/ pc = "idle" /\ uploaded_files_list' = uploaded_files_list /\ merge_attempted'
       /\ StoredResult' = << None, 0, << >> >>
  \/ pc = "done" /\ pc' = "idle"

\* C18: the stored result changes only in a run in which the merge button
\* was pressed; a run that changes the uploaded files leaves it as it is, and
\* the stream offered for download is the one of the last call, whatever
\* is uploaded now.
C18_StoredResultFrame ==
  /\ [][StoredResult' # StoredResult => MergeRunStep]_vars
  /\ [][uploaded_files_list' # uploaded_files_list
          => StoredResult' = StoredResult]_vars
  /\ []((pc = "idle" /\ download_offered) =>
          /\ prev_call.called
          /\ merged_doc_stream = Saved(prev_call.body, TemplateParts)
          /\ ss_files_processed_count = prev_call.count
          /\ ss_failed_files = prev_call.failed)

C18_Witness ==
  /\ pc = "idle"
  /\ download_offered
  /\ uploaded_files_list # << >>
  /\ NameSet(uploaded_files_list) # NameSet(prev_call.files)
  /\ sorted_files_for_merge = NatSorted(uploaded_files_list)

\* C19: the list the call gets is the stored sorted list of this run: it
\* holds the files uploaded now, each once as uploaded, in natural order,
\* and is not empty.
C19_CallGetsSortedUpload ==
  pc # "idle" =>
    /\ uploaded_files # << >>
    /\ uploaded_files = sorted_files_for_merge
    /\ Len(uploaded_files) = Len(uploaded_files_list)
    /\ \A j \in 1..Len(uploaded_files_list) :
         Occurrences(uploaded_files, uploaded_files_list[j])
           = Occurrences(uploaded_files_list, uploaded_files_list[j])
    /\ IsNatSorted(uploaded_files)

C19_Witness ==
  /\ pc = "start"
  /\ Len(uploaded_files) = 2
  /\ uploaded_files # uploaded_files_list
  /\ prev_call.called
  /\ NameSet(prev_call.files) # NameSet(uploaded_files)
=============================================================================
